---- MODULE Spec2Model ----
(***************************************************************************)
(* Field metadata layer of starlette_admin (src/starlette_admin/fields.py).*)
(*                                                                         *)
(* A field is a dataclass instance: the class it was built from and its    *)
(* instance attributes.  The operations are construction (the generated    *)
(* __init__ followed by __post_init__), EnumField.from_enum, attribute     *)
(* assignment, dict() and input_params().                                  *)
(***************************************************************************)
EXTENDS Integers, Sequences, FiniteSets, TLC

(* ---------------------------------------------------------------- bounds *)
\* longest field name drawn as an input
MaxLen == 2
\* most declarations of an enumeration type (or items of a plain list)
MaxMembers == 2

(* ---------------------------------------------------------------- values *)
\* A Python value.  t is its type; the other components carry the payload of
\* that type and are blank otherwise.  A str the code only passes around is
\* the atom s; a str the code processes character by character (name, label)
\* is the character sequence q.  l is a list of {name, value} dicts.
Val(t, s, n, b, q, l) == [t |-> t, s |-> s, n |-> n, b |-> b, q |-> q, l |-> l]
None == Val("none", "", 0, FALSE, <<>>, <<>>)
MISSING == Val("missing", "", 0, FALSE, <<>>, <<>>)
Str(x) == Val("str", x, 0, FALSE, <<>>, <<>>)
Chars(cs) == Val("str", "", 0, FALSE, cs, <<>>)
Num(i) == Val("int", "", i, FALSE, <<>>, <<>>)
Bool(x) == Val("bool", "", 0, x, <<>>, <<>>)
List(xs) == Val("list", "", 0, FALSE, <<>>, xs)

EmptyMap == [k \in {} |-> None]
\* dict.update / keyword override: the entries of g over those of f
Merge(f, g) == [k \in (DOMAIN f) \cup (DOMAIN g) |-> IF k \in DOMAIN g THEN g[k] ELSE f[k]]

(* ------------------------------------------------------------- the classes *)
Variants == {"BooleanField", "StringField", "IntegerField", "DecimalField",
             "TextAreaField", "TagsField", "EmailField", "PhoneField", "EnumField",
             "DateTimeField", "DateField", "TimeField", "JSONField", "FileField",
             "ImageField", "HasOne", "HasMany"}

\* the base class of each class
Bases(c) ==
  CASE c = "BaseField" -> "object"
    [] c \in {"BooleanField", "StringField", "TagsField", "EnumField", "DateTimeField",
              "DateField", "TimeField", "JSONField", "FileField", "RelationField"} -> "BaseField"
    [] c \in {"NumberField", "TextAreaField", "EmailField", "PhoneField"} -> "StringField"
    [] c \in {"IntegerField", "DecimalField"} -> "NumberField"
    [] c = "ImageField" -> "FileField"
    [] c \in {"HasOne", "HasMany"} -> "RelationField"

\* the annotated attributes of a class body (its own dataclass fields) with
\* their defaults; MISSING is a field without default
OwnFields(c) ==
  CASE c = "BaseField" ->
         [name |-> MISSING, label |-> None, type |-> Str("BaseField"),
          search_builder_type |-> Str("default"), required |-> Bool(FALSE),
          is_array |-> Bool(FALSE), exclude_from_list |-> Bool(FALSE),
          exclude_from_detail |-> Bool(FALSE), exclude_from_create |-> Bool(FALSE),
          exclude_from_edit |-> Bool(FALSE), searchable |-> Bool(TRUE),
          orderable |-> Bool(TRUE), render_js |-> Str("js/text.js"),
          form_template |-> Str("forms/input.html"), form_js |-> None,
          display_template |-> Str("displays/text.html"), display_js |-> None]
    [] c = "BooleanField" ->
         [type |-> Str("BooleanField"), search_builder_type |-> Str("bool"),
          render_js |-> Str("js/bool.js"), form_template |-> Str("forms/boolean.html"),
          display_template |-> Str("displays/boolean.html")]
    [] c = "StringField" ->
         [type |-> Str("StringField"), search_builder_type |-> Str("string"),
          help_text |-> None, render_js |-> Str("js/text.js"),
          form_template |-> Str("forms/input.html"),
          display_template |-> Str("displays/text.html")]
    [] c = "NumberField" ->
         [type |-> Str("NumberField"), search_builder_type |-> Str("num"),
          max |-> None, min |-> None, step |-> None]
    [] c = "IntegerField" -> [type |-> Str("IntegerField")]
    [] c = "DecimalField" -> [type |-> Str("DecimalField")]
    [] c = "TextAreaField" ->
         [type |-> Str("TextAreaField"), maxlength |-> None, minlength |-> None,
          form_template |-> Str("forms/textarea.html")]
    [] c = "TagsField" -> [type |-> Str("tags"), is_array |-> Bool(TRUE)]
    [] c = "EmailField" -> [type |-> Str("email")]
    [] c = "PhoneField" -> EmptyMap
    [] c = "EnumField" ->
         [type |-> Str("enum"), search_builder_type |-> Str("string"), values |-> List(<<>>)]
    [] c = "DateTimeField" ->
         [type |-> Str("datetime"), output_format |-> Str("%B %d, %Y %H:%M:%S"),
          search_format |-> None,
          search_builder_type |-> Str("moment-MMMM D, YYYY HH:mm:ss")]
    [] c = "DateField" ->
         [type |-> Str("date"), output_format |-> Str("%B %d, %Y"),
          search_format |-> Str("YYYY-MM-DD"),
          search_builder_type |-> Str("moment-MMMM D, YYYY")]
    [] c = "TimeField" ->
         [type |-> Str("time"), output_format |-> Str("%H:%M:%S"),
          search_format |-> Str("HH:mm:ss"), search_builder_type |-> Str("moment-HH:mm:ss")]
    [] c = "JSONField" -> [type |-> Str("json")]
    [] c = "FileField" -> [type |-> Str("file")]
    [] c = "ImageField" -> [type |-> Str("image")]
    [] c = "RelationField" -> [type |-> Str("relation"), identity |-> None]
    [] c = "HasOne" -> EmptyMap
    [] c = "HasMany" -> [many |-> Bool(TRUE), is_array |-> Bool(TRUE)]

\* the attributes a class body assigns without annotation: plain class
\* attributes, which the dataclass machinery does not turn into fields
ClassAttrs(c) ==
  CASE c = "StringField" ->
         [input_type |-> Str("text"), class_ |-> Str("field-string form-control"),
          error_class |-> Str("is-invalid")]
    [] c = "NumberField" -> [input_type |-> Str("number")]
    [] c = "IntegerField" -> [class_ |-> Str("field-integer form-control")]
    [] c = "DecimalField" ->
         [step |-> Str("any"), class_ |-> Str("field-decimal form-control")]
    [] c = "TextAreaField" -> [class_ |-> Str("field-textarea form-control")]
    [] c = "PhoneField" -> [input_type |-> Str("phone")]
    [] OTHER -> EmptyMap

\* @dataclass: the fields of a class are those of its bases, in the order of
\* the method resolution, overridden or extended by its own annotated ones
RECURSIVE DataclassFields(_)
DataclassFields(c) ==
  IF c = "object" THEN EmptyMap ELSE Merge(DataclassFields(Bases(c)), OwnFields(c))

\* the class namespace after @dataclass: the defaults of the own fields and the
\* plain class attributes
ClassDict(c) ==
  LET own == OwnFields(c)
      dflt == [k \in {x \in DOMAIN own : own[x].t # "missing"} |-> own[k]]
  IN Merge(dflt, ClassAttrs(c))

\* attribute lookup on the class: the first namespace of the method resolution
\* order that holds k
RECURSIVE ClassLookup(_, _)
ClassLookup(c, k) ==
  IF c = "object" THEN MISSING
  ELSE IF k \in DOMAIN ClassDict(c) THEN ClassDict(c)[k] ELSE ClassLookup(Bases(c), k)

(* ------------------------------------------------------------ str methods *)
Alphabet == {"a", "B", "_"}
\* str.upper / str.lower on one character
Upper(ch) == CASE ch = "a" -> "A" [] ch = "b" -> "B" [] OTHER -> ch
Lower(ch) == CASE ch = "A" -> "a" [] ch = "B" -> "b" [] OTHER -> ch
\* str.replace(old, new) for one-character old and new
Replace(cs, old, new) == [i \in 1..Len(cs) |-> IF cs[i] = old THEN new ELSE cs[i]]
\* a capitalize that leaves the characters after the first as they are
CapitalizeFirstOnly(cs) == [i \in 1..Len(cs) |-> IF i = 1 THEN Upper(cs[i]) ELSE cs[i]]
\* str.capitalize(): the first character upper-cased, the rest lower-cased
Capitalize(cs) == [i \in 1..Len(cs) |-> IF i = 1 THEN Upper(cs[i]) ELSE Lower(cs[i])]

(* ------------------------------------------------------------ construction *)
\* a field instance: its class and its instance attributes
NoField == [cls |-> "", attrs |-> EmptyMap]

\* the generated __init__ accepts the keywords kw: every keyword is a field
\* and every field without default is given
InitAccepts(c, kw) ==
  LET F == DataclassFields(c)
  IN /\ DOMAIN kw \subseteq DOMAIN F
     /\ \A k \in DOMAIN F : F[k].t = "missing" => k \in DOMAIN kw

\* the generated __init__: every field is assigned the keyword or the default
\* of its Field object
GeneratedInit(c, kw) ==
  LET F == DataclassFields(c)
  IN [k \in DOMAIN F |-> IF k \in DOMAIN kw THEN kw[k] ELSE F[k]]

\* a __post_init__ that derives nothing
PostInitSkipsDefault(attrs) == attrs
PostInit(attrs) ==
  IF attrs["label"].t = "none"
  THEN [attrs EXCEPT !["label"] = Chars(Capitalize(Replace(attrs["name"].q, "_", " ")))]
  ELSE attrs

\* cls(**kw)
New(c, kw) == [cls |-> c, attrs |-> PostInit(GeneratedInit(c, kw))]

\* getattr(f, k): the instance attribute, else the class attribute
GetAttr(f, k) == IF k \in DOMAIN f.attrs THEN f.attrs[k] ELSE ClassLookup(f.cls, k)

\* an assignment that derives the label again from the attributes it leaves
SetAttrRederive(f, k, v) ==
  [f EXCEPT !.attrs = PostInit(Merge(Merge(f.attrs, [x \in {k} |-> v]), [label |-> None]))]
\* f.k = v
SetAttr(f, k, v) == [f EXCEPT !.attrs = Merge(f.attrs, [x \in {k} |-> v])]

\* a serialization of the annotations of the instance's own class only
DictOwnFieldsOnly(f) == [k \in DOMAIN OwnFields(f.cls) |-> GetAttr(f, k)]
\* a serialization that leaves out the attributes that are None
DictDropsNone(f) ==
  [k \in {x \in DOMAIN DataclassFields(f.cls) : GetAttr(f, x) # None} |-> GetAttr(f, k)]
\* BaseField.dict: asdict copies every dataclass field of the instance
BaseField_dict(f) == [k \in DOMAIN DataclassFields(f.cls) |-> GetAttr(f, k)]

(* ------------------------------------------------------------ input_params *)
\* markup escaping of an atom
Escape(s) == CASE s = "<any>" -> "&lt;any&gt;" [] OTHER -> s
Render(v) == IF v.t = "int" THEN ToString(v.n) ELSE Escape(v.s)
Absent(v) == v.t = "none" \/ (v.t = "str" /\ v.s = "" /\ v.q = <<>>)
KeepPair(p) == ~Absent(p.v)
\* helpers.html_params: the key="value" pairs of the set values, in order
html_params(kw) ==
  LET keep == SelectSeq(kw, KeepPair)
  IN [i \in 1..Len(keep) |-> [key |-> keep[i].k, value |-> Render(keep[i].v)]]

Pair(k, v) == [k |-> k, v |-> v]

StringField_input_params(f) == html_params(<<Pair("type", GetAttr(f, "input_type"))>>)

NumberField_input_params(f) ==
  html_params(<<Pair("type", GetAttr(f, "input_type")), Pair("min", GetAttr(f, "min")),
                Pair("max", GetAttr(f, "max")), Pair("step", GetAttr(f, "step"))>>)

\* a TextArea attribute string that also carries the inherited type
TextAreaWithType(f) ==
  html_params(<<Pair("type", GetAttr(f, "input_type")),
                Pair("minlength", GetAttr(f, "minlength")),
                Pair("maxlength", GetAttr(f, "maxlength"))>>)

TextAreaField_input_params(f) ==
  html_params(<<Pair("minlength", GetAttr(f, "minlength")),
                Pair("maxlength", GetAttr(f, "maxlength"))>>)

\* the class whose input_params a call on an instance of c runs ("" when no
\* class of the method resolution order defines one)
RECURSIVE InputParamsOwner(_)
InputParamsOwner(c) ==
  IF c = "object" THEN ""
  ELSE IF c \in {"StringField", "NumberField", "TextAreaField"} THEN c
  ELSE InputParamsOwner(Bases(c))

input_params(f) ==
  CASE InputParamsOwner(f.cls) = "NumberField" -> NumberField_input_params(f)
    [] InputParamsOwner(f.cls) = "TextAreaField" -> TextAreaField_input_params(f)
    [] OTHER -> StringField_input_params(f)

(* --------------------------------------------------------------- from_enum *)
\* An object handed to from_enum as enum_type: an Enum class with its
\* declarations, a plain list with its items, or an int.  hasattrs tells
\* whether an item has the attributes name and value.
Item(h, n, v) == [hasattrs |-> h, name |-> n, value |-> v]

\* iterating an Enum class yields its members in declaration order; a
\* declaration whose value an earlier one has is an alias, not a member
RECURSIVE EnumMembers(_, _)
EnumMembers(decl, seen) ==
  IF decl = <<>> THEN <<>>
  ELSE IF Head(decl).value \in seen THEN EnumMembers(Tail(decl), seen)
  ELSE <<Head(decl)>> \o EnumMembers(Tail(decl), seen \cup {Head(decl).value})

Iterable(e) == e.kind # "int"
Iterate(e) == IF e.kind = "enum" THEN EnumMembers(e.items, {}) ELSE e.items

\* lambda e: dict(name=e.name, value=e.value)
EntryOf(m) == [name |-> m.name, value |-> m.value]

\* the entries in reverse iteration order
MapEntriesReversed(e) ==
  LET ms == Iterate(e) IN [i \in 1..Len(ms) |-> EntryOf(ms[Len(ms) + 1 - i])]
\* list(map(lambda ..., enum_type))
MapEntries(e) == LET ms == Iterate(e) IN [i \in 1..Len(ms) |-> EntryOf(ms[i])]

\* the exception from_enum ends in ("none": it returns)
from_enum_raises(e) ==
  IF ~Iterable(e) THEN "TypeError"
  ELSE IF \E i \in 1..Len(Iterate(e)) : ~Iterate(e)[i].hasattrs THEN "AttributeError"
  ELSE "none"

\* the keywords from_enum passes to cls
from_enum_kwargs(name, e, is_array, searchable, search_builder_type) ==
  [name |-> name, values |-> List(MapEntries(e)), is_array |-> is_array,
   searchable |-> searchable, search_builder_type |-> search_builder_type]

(* ------------------------------------------------------------------ inputs *)
SeqsUpTo(S, n) == UNION {[1..k -> S] : k \in 0..n}
Names == SeqsUpTo(Alphabet, MaxLen)
Renames == {<<"a", "B">>, <<"_">>}
Labels == {None, Chars(<<>>), Chars(<<"I", "d">>)}

\* the keyword overrides a construction of c is drawn from, besides name
OverrideDomain(c) ==
  LET F == DOMAIN DataclassFields(c)
      D == [label |-> Labels,
            min |-> {Num(0)}, max |-> {Num(120)},
            step |-> {Num(1), Str("<any>"), Str("")},
            minlength |-> {Num(0)}, maxlength |-> {Num(500)},
            values |-> {List(<<[name |-> "NEW", value |-> "new"]>>)},
            identity |-> {Str("User")}]
  IN [k \in F \cap DOMAIN D |-> D[k]]

\* every choice of a subset of the overridable keywords and a value for each
Overrides(c) ==
  LET D == OverrideDomain(c)
  IN UNION {{kw \in [K -> UNION {D[k] : k \in K}] : \A k \in K : kw[k] \in D[k]}
            : K \in SUBSET DOMAIN D}

MemberNames == {"NEW", "ONGOING", "DONE"}
MemberValues == {"new", "done"}
EnumClasses ==
  {[kind |-> "enum", items |-> d] :
     d \in {x \in SeqsUpTo({Item(TRUE, n, v) : n \in MemberNames, v \in MemberValues}, MaxMembers) :
              \A i, j \in 1..Len(x) : i # j => x[i].name # x[j].name}}
PlainLists ==
  {[kind |-> "list", items |-> d] :
     d \in SeqsUpTo({Item(FALSE, "", ""), Item(TRUE, "NEW", "new")}, MaxMembers)}
EnumArgs == EnumClasses \cup PlainLists \cup {[kind |-> "int", items |-> <<>>]}
NoArg == [kind |-> "", items |-> <<>>]

(* ------------------------------------------------------------------- state *)
VARIABLES
  fld,      \* the field under construction and use
  ctor,     \* the keywords fld was constructed with
  last,     \* the last operation and the enum_type it was given
  mapping,  \* the mapping dict() returned, or the keywords other was built from
  params,   \* the attribute string input_params() returned
  other,    \* a second field: the one rebuilt from mapping
  err       \* the exception the last operation ended in

vars == <<fld, ctor, last, mapping, params, other, err>>

Op(op, e) == [op |-> op, enum |-> e]

Init ==
  /\ fld = NoField
  /\ ctor = EmptyMap
  /\ last = Op("", NoArg)
  /\ mapping = EmptyMap
  /\ params = <<>>
  /\ other = NoField
  /\ err = "none"

\* cls(name=..., **overrides)
Construct ==
  /\ fld = NoField /\ err = "none"
  /\ \E c \in Variants, n \in Names : \E o \in Overrides(c) :
       LET kw == Merge(o, [name |-> Chars(n)])
       IN /\ InitAccepts(c, kw)
          /\ fld' = New(c, kw)
          /\ ctor' = kw
  /\ last' = Op("init", NoArg)
  /\ UNCHANGED <<mapping, params, other, err>>

\* EnumField.from_enum(name, enum_type, is_array, searchable, search_builder_type)
FromEnum ==
  /\ fld = NoField /\ err = "none"
  /\ \E n \in {x \in Names : Len(x) <= 1}, e \in EnumArgs, a \in BOOLEAN :
       /\ last' = Op("from_enum", e)
       /\ err' = from_enum_raises(e)
       /\ IF from_enum_raises(e) = "none"
          THEN LET kw == from_enum_kwargs(Chars(n), e, Bool(a), Bool(TRUE), Str("string"))
               IN fld' = New("EnumField", kw) /\ ctor' = kw
          ELSE UNCHANGED <<fld, ctor>>
  /\ UNCHANGED <<mapping, params, other>>

\* fld.name = n
SetName(n) ==
  /\ fld # NoField /\ err = "none"
  /\ fld.attrs["name"] # Chars(n)
  /\ fld' = SetAttr(fld, "name", Chars(n))
  /\ last' = Op("setattr", NoArg)
  /\ mapping' = EmptyMap /\ params' = <<>> /\ other' = NoField
  /\ UNCHANGED <<ctor, err>>

\* fld.dict()
Dict ==
  /\ fld # NoField /\ err = "none"
  /\ mapping' = BaseField_dict(fld)
  /\ last' = Op("dict", NoArg)
  /\ params' = <<>> /\ other' = NoField
  /\ UNCHANGED <<fld, ctor, err>>

\* fld.input_params()
InputParams ==
  /\ fld # NoField /\ err = "none"
  /\ last' = Op("input_params", NoArg)
  /\ IF InputParamsOwner(fld.cls) = ""
     THEN err' = "AttributeError" /\ params' = <<>>
     ELSE err' = "none" /\ params' = input_params(fld)
  /\ mapping' = EmptyMap /\ other' = NoField
  /\ UNCHANGED <<fld, ctor>>

\* type(fld)(**fld.dict()), the mapping being the one dict() just returned
Rehydrate ==
  /\ fld # NoField /\ err = "none"
  /\ last.op = "dict"
  /\ IF InitAccepts(fld.cls, mapping)
     THEN other' = New(fld.cls, mapping) /\ err' = "none"
     ELSE other' = NoField /\ err' = "TypeError"
  /\ last' = Op("rehydrate", NoArg)
  /\ UNCHANGED <<fld, ctor, mapping, params>>

Next ==
  \/ Construct
  \/ FromEnum
  \/ \E n \in Renames : SetName(n)
  \/ Dict
  \/ InputParams
  \/ Rehydrate

Spec == Init /\ [][Next]_vars

(* ------------------------------------------- two fields side by side *)
\* the keywords of a plain declaration: a name, with or without a type tag
KindKeywords ==
  {[name |-> Chars(<<"a">>)], [name |-> Chars(<<"a">>), type |-> Str("custom")]}

\* fld = cls(**kw)
DeclareField ==
  /\ fld = NoField
  /\ \E c \in Variants, kw \in KindKeywords :
       /\ InitAccepts(c, kw)
       /\ fld' = New(c, kw)
       /\ ctor' = kw
  /\ last' = Op("init", NoArg)
  /\ UNCHANGED <<mapping, params, other, err>>

\* other = cls(**kw)
DeclareOther ==
  /\ other = NoField
  /\ \E c \in Variants, kw \in KindKeywords :
       /\ InitAccepts(c, kw)
       /\ other' = New(c, kw)
       /\ mapping' = kw
  /\ last' = Op("init", NoArg)
  /\ UNCHANGED <<fld, ctor, params, err>>

NextKinds == DeclareField \/ DeclareOther

SpecKinds == Init /\ [][NextKinds]_vars

(* ------------------------------------------------------------- properties *)
Exists == fld # NoField
LabelOmitted == "label" \notin DOMAIN ctor \/ ctor["label"] = None
NameGiven == ctor["name"].q
LabelOf(f) == f.attrs["label"]
\* the name with every underscore turned into a space, character by character
Spaced(cs, i) == IF cs[i] = "_" THEN " " ELSE cs[i]

\* C1 as stated: a field constructed without a label has the label made of its
\* name by turning every underscore into a space and upper-casing the first
\* character, every other character being left as it is.
C1_LabelKeepsOtherCharacters ==
  (Exists /\ LabelOmitted) =>
    /\ LabelOf(fld).t = "str"
    /\ Len(LabelOf(fld).q) = Len(NameGiven)
    /\ \A i \in 1..Len(NameGiven) :
         LabelOf(fld).q[i] = IF i = 1 THEN Upper(Spaced(NameGiven, i)) ELSE Spaced(NameGiven, i)

\* C1 amended: a field constructed without a label has the label made of its
\* name by turning every underscore into a space, upper-casing the first
\* character and lower-casing every other character.
C1_LabelIsCapitalized ==
  (Exists /\ LabelOmitted) =>
    /\ LabelOf(fld).t = "str"
    /\ Len(LabelOf(fld).q) = Len(NameGiven)
    /\ \A i \in 1..Len(NameGiven) :
         LabelOf(fld).q[i] =
           IF i = 1 THEN Upper(Spaced(NameGiven, i)) ELSE Lower(Spaced(NameGiven, i))

C1_Witness ==
  /\ Exists /\ LabelOmitted
  /\ NameGiven = <<"_", "B">>
  /\ LabelOf(fld) = Chars(<<" ", "b">>)

\* C6 as stated: the label of every field that exists is a non-empty string,
\* whatever name and label it was constructed with.
C6_LabelNeverEmpty ==
  Exists => (LabelOf(fld).t = "str" /\ LabelOf(fld).q # <<>>)

\* C6 amended: the label of every field that exists is a string, never None;
\* it is empty exactly when an empty label was supplied, or no label was
\* supplied and the name is empty.
C6_LabelNeverAbsent ==
  Exists =>
    /\ LabelOf(fld).t = "str"
    /\ (LabelOf(fld).q = <<>>) <=>
         \/ (~LabelOmitted /\ ctor["label"] = Chars(<<>>))
         \/ (LabelOmitted /\ NameGiven = <<>>)

C6_Witness ==
  /\ Exists /\ LabelOmitted
  /\ NameGiven = <<>>
  /\ LabelOf(fld) = Chars(<<>>)

\* C7: once a field exists, no later operation (assigning name, dict(),
\* input_params(), rebuilding a copy) changes its label.
C7_LabelFixed ==
  [][Exists => LabelOf(fld') = LabelOf(fld)]_vars

C7_Witness ==
  /\ Exists /\ LabelOmitted
  /\ last.op = "setattr"
  /\ NameGiven = <<"a">>
  /\ fld.attrs["name"] = Chars(<<"_">>)
  /\ LabelOf(fld) = Chars(<<"A">>)

\* C8: a field rebuilt from the mapping dict() returned has every attribute of
\* the field it was serialized from, and, the name not having been reassigned,
\* every attribute of a fresh construction with the same keywords.
C8_RoundTrip ==
  last.op = "rehydrate" =>
    /\ err = "none"
    /\ other.cls = fld.cls
    /\ \A k \in (DOMAIN fld.attrs) \cup (DOMAIN other.attrs) :
         k \in DOMAIN other.attrs /\ k \in DOMAIN fld.attrs /\ other.attrs[k] = fld.attrs[k]
    /\ (fld.attrs["name"] = ctor["name"] => other = New(fld.cls, ctor))

C8_Witness ==
  /\ last.op = "rehydrate"
  /\ fld.cls = "EnumField"
  /\ LabelOmitted
  /\ Len(other.attrs["values"].l) = 2
  /\ other.attrs["label"] = Chars(<<"A">>)

\* the attributes the data model declares for each variant
BaseKeys ==
  {"name", "label", "type", "search_builder_type", "required", "is_array",
   "exclude_from_list", "exclude_from_detail", "exclude_from_create",
   "exclude_from_edit", "searchable", "orderable", "render_js", "form_template",
   "form_js", "display_template", "display_js"}
DeclaredKeys(c) ==
  BaseKeys \cup
    CASE c \in {"StringField", "EmailField", "PhoneField"} -> {"help_text"}
      [] c \in {"IntegerField", "DecimalField"} -> {"help_text", "min", "max", "step"}
      [] c = "TextAreaField" -> {"help_text", "minlength", "maxlength"}
      [] c = "EnumField" -> {"values"}
      [] c \in {"DateTimeField", "DateField", "TimeField"} -> {"output_format", "search_format"}
      [] c = "HasOne" -> {"identity"}
      [] c = "HasMany" -> {"identity", "many"}
      [] OTHER -> {}

\* C9: the mapping dict() returns has exactly the declared attributes of the
\* field's variant as keys, whatever the field was constructed with.
C9_DictKeys ==
  last.op = "dict" => DOMAIN mapping = DeclaredKeys(fld.cls)

C9_Witness ==
  /\ last.op = "dict"
  /\ fld.cls = "HasMany"
  /\ "identity" \notin DOMAIN ctor
  /\ mapping["many"] = Bool(TRUE)
  /\ mapping["identity"] = None

\* the declarations of an enumeration that are members: those whose value no
\* earlier declaration has
MemberIndexes(d) == {i \in 1..Len(d) : \A j \in 1..(i - 1) : d[j].value # d[i].value}
\* the position of member declaration i among the members
MemberRank(d, i) == Cardinality({j \in MemberIndexes(d) : j <= i})

\* C2: from_enum on an enumeration type returns a field whose values hold one
\* entry per member, in declaration order, the entry of a member carrying its
\* symbolic name and its underlying value.
C2_ValuesFollowMembers ==
  (last.op = "from_enum" /\ last.enum.kind = "enum") =>
    LET d == last.enum.items
        vals == fld.attrs["values"]
    IN /\ err = "none" /\ Exists
       /\ vals.t = "list"
       /\ Len(vals.l) = Cardinality(MemberIndexes(d))
       /\ \A i \in MemberIndexes(d) :
            vals.l[MemberRank(d, i)] = [name |-> d[i].name, value |-> d[i].value]

C2_Witness ==
  /\ last.op = "from_enum"
  /\ last.enum = [kind |-> "enum",
                  items |-> <<Item(TRUE, "NEW", "new"), Item(TRUE, "DONE", "done")>>]
  /\ fld.attrs["values"].l =
       <<[name |-> "NEW", value |-> "new"], [name |-> "DONE", value |-> "done"]>>

\* C3: from_enum on an object that is not an enumeration type ends in a type
\* error and returns no field.
C3_NonEnumIsTypeError ==
  (last.op = "from_enum" /\ last.enum.kind # "enum") => (err = "TypeError" /\ ~Exists)

\* C4: a DecimalField constructed without a step has step "any", and the
\* attribute string it derives carries step="any".
C4_DecimalStepAny ==
  (Exists /\ fld.cls = "DecimalField" /\ "step" \notin DOMAIN ctor) =>
    /\ GetAttr(fld, "step") = Str("any")
    /\ last.op = "input_params" =>
         \E i \in 1..Len(params) : params[i] = [key |-> "step", value |-> "any"]

\* the attributes the attribute string of each variant is derived from
AttrList(c) ==
  CASE c \in {"StringField", "EmailField", "PhoneField"} -> {"type"}
    [] c \in {"IntegerField", "DecimalField"} -> {"type", "min", "max", "step"}
    [] c = "TextAreaField" -> {"minlength", "maxlength"}
\* the input type of each variant
InputTypeOf(c) ==
  CASE c = "PhoneField" -> "phone"
    [] c \in {"IntegerField", "DecimalField"} -> "number"
    [] OTHER -> "text"
\* the text of a set value inside the quotes
TextOf(v) ==
  CASE v = Num(0) -> "0" [] v = Num(1) -> "1" [] v = Num(120) -> "120"
    [] v = Num(500) -> "500" [] v = Str("<any>") -> "&lt;any&gt;"
IsSet(v) == v # None /\ v # Str("")
ParamKeys == {params[i].key : i \in 1..Len(params)}

\* C5: the attribute string holds one key="value" pair for each attribute of
\* the variant's list whose value is set, and no other pair.
C5_ParamsAreSetAttributes ==
  (last.op = "input_params" /\ err = "none") =>
    LET c == fld.cls
        set == {k \in AttrList(c) : k = "type" \/ IsSet(fld.attrs[k])}
    IN /\ ParamKeys = set
       /\ Len(params) = Cardinality(set)
       /\ \A i \in 1..Len(params) :
            params[i].value = IF params[i].key = "type" THEN InputTypeOf(c)
                              ELSE TextOf(fld.attrs[params[i].key])

C5_Witness ==
  /\ last.op = "input_params"
  /\ fld.cls = "IntegerField"
  /\ fld.attrs["min"] = Num(0) /\ fld.attrs["max"] = Num(120) /\ fld.attrs["step"] = None
  /\ params = <<[key |-> "type", value |-> "number"], [key |-> "min", value |-> "0"],
                [key |-> "max", value |-> "120"]>>

\* C10: two fields of different variants, neither constructed with a type
\* keyword, have different type tags.
C10_KindIdentifiesVariant ==
  (Exists /\ other # NoField /\ fld.cls # other.cls
     /\ "type" \notin DOMAIN ctor /\ "type" \notin DOMAIN mapping) =>
    fld.attrs["type"] # other.attrs["type"]

====
